---- MODULE Spec2Model ----
(***************************************************************************)
(* A model of the batch pipeline of the literature mining platform:        *)
(* DataProcessor (src/data_processor.py) driving a ThreadPoolExecutor, the *)
(* CSV output sink it appends to and reads back for resume                 *)
(* (src/utils.py read_csv_robustly), and the stop flag set from the GUI    *)
(* thread (src/main_app.py).                                               *)
(*                                                                         *)
(* The input table is fixed: NumRecords records with the unique UIDs       *)
(* 1..NumRecords, in source order.  A sequence of runs is started on one   *)
(* DataProcessor against the same input and the same sink.                 *)
(*                                                                         *)
(* The functions a task is made of are specified on their own as well,     *)
(* each applied to inputs drawn from a bounded set: flatten_json_result    *)
(* (SpecFlatten), _clean_json_response (SpecClean), analyze_text with its  *)
(* retry loop (SpecClient), and _analyze_single_document with the merge    *)
(* of its result into the OutputRow (SpecTask).  The queue that carries    *)
(* the log lines and progress events to the GUI's poll is specified with   *)
(* its producers and its consumer (SpecChannel), and the App's controls    *)
(* with the poll that resets them (SpecUI).                                *)
(***************************************************************************)
EXTENDS Integers, Sequences, FiniteSets, TLC

\* ---------------------------------------------------------------- bounds
\* Number of records of the input table.
NumRecords == 3
\* Number of runs started on the DataProcessor.
MaxRuns == 2
\* Largest process_count the user enters (0 = no limit).
MaxLimit == 1
\* config.SAVE_INTERVAL (100 in src/config.py:23), scaled to the table size.
SAVE_INTERVAL == 2
\* config.MAX_WORKERS (10 in src/config.py:12), scaled to the table size.
MAX_WORKERS == 2
\* Number of writes to the sink that fail (to_csv raising).
MaxWriteFailures == 1

UIDs == 1..NumRecords

\* What a task's future holds when it is done (data_processor.py:127-145):
\*   "structured"  a non-empty mapping without an error key
\*   "tagged"      a non-empty mapping {"error": ..., "raw_content": ...},
\*                 the client's tagged failure (api_clients.py:96,100)
\*   "empty"       a falsy result (None or {})
\*   "raised"      the task raised; future.result() re-raises
Outcomes == {"structured", "tagged", "empty", "raised"}

VARIABLES
    sink,            \* the output file: a sequence of CSV lines
    pc,              \* where the run's thread is
    stop_event,      \* DataProcessor._stop_event
    msgs,            \* the run's report messages on the queue, in order
    \* arguments of run_analysis
    process_count,
    resume_mode,
    source,          \* what reading input_file gives
    \* locals of _execute_analysis
    processed_uids,  \* the ResumeSet of the run
    todo,            \* df_to_process: the UIDs to process, in source order
    nsub,            \* rows of df_to_process the submission loop has passed
    fut,             \* future_to_uid: per UID the state of its future
    yielded,         \* futures as_completed has yielded
    batch_results,   \* the in-memory batch buffer
    header_written,
    processed_count,
    \* history of the current run
    flushLog,        \* the run's calls of _save_batch_results
    merged,          \* UIDs whose OutputRow the run has built
    failed,          \* merged UIDs whose task gave no structured result
    sinkAtStart,     \* length of the sink when the run started
    stopDuring,      \* stop() was called while run_analysis executed
    nDoneAtStop,     \* number of futures done when stop() set the flag
    stopEarly,       \* stop() came before every task was submitted
    doneAtObserve,   \* futures done when the collection loop saw the flag
    observed,        \* the collection loop broke on the flag
    progress,        \* the progress events the run has put on the queue
    escaped,         \* an exception left _execute_analysis
    propagated,      \* an exception left run_analysis
    stopRequested,   \* stop() was called after the thread was launched
    \* history of all runs
    runs,            \* number of runs started
    subPrev,         \* UIDs that earlier runs submitted
    anyStop,         \* stop() was called in some run
    allResume,       \* every run so far had resume_mode = TRUE
    nWriteFail,      \* number of writes to the sink that failed
    \* the functions checked on their own, each on inputs drawn in its Init
    flat,            \* a call of flatten_json_result
    clean,           \* a call of BaseAPIClient._clean_json_response
    client,          \* a call of analyze_text of one provider's client
    task,            \* a call of _analyze_single_document and its merge
    chan,            \* the queue between the producers and the GUI's poll
    ui               \* the App: its controls, its run threads and its queue

args == <<process_count, resume_mode, source>>
runLocal == <<processed_uids, todo, nsub, fut, yielded, batch_results,
              header_written, processed_count>>
runHist == <<flushLog, merged, failed, sinkAtStart, stopDuring, nDoneAtStop,
             stopEarly, doneAtObserve, observed, progress, escaped,
             propagated, stopRequested>>
allHist == <<runs, subPrev, anyStop, allResume, nWriteFail>>

pipelineVars ==
    <<sink, pc, stop_event, msgs, args, runLocal, runHist, allHist>>
callVars == <<flat, clean, client, task, chan, ui>>

vars == <<pipelineVars, callVars>>

\* The value of a call variable under a specification that makes no such call.
NoCall == [step |-> "none"]

\* ---------------------------------------------------------------- helpers
RECURSIVE SeqToSet(_)
SeqToSet(s) == IF s = <<>> THEN {} ELSE {Head(s)} \cup SeqToSet(Tail(s))

RECURSIVE SelectInOrder(_, _)
\* The elements of sequence s that satisfy membership in keep, order kept.
SelectInOrder(s, keep) ==
    IF s = <<>> THEN <<>>
    ELSE IF Head(s) \in keep THEN <<Head(s)>> \o SelectInOrder(Tail(s), keep)
         ELSE SelectInOrder(Tail(s), keep)

HeadN(s, n) == IF Len(s) <= n THEN s ELSE SubSeq(s, 1, n)

\* The input table's UID column, in source order.
SourceUIDs == [i \in 1..NumRecords |-> i]

\* ------------------------------------------------------------ the CSV sink
\* The columns the analysis result adds after the original columns of the
\* record: the flattened result's keys, or the error key of an error row.
ResultColumns(o) ==
    CASE o = "structured" -> {"field"}
      [] o = "tagged"     -> {"error", "raw_content"}
      [] o = "empty"      -> {"error"}
      [] o = "raised"     -> {"error"}

\* The value of the row's error column ("none": the row has no error value).
ErrorTag(o) ==
    CASE o = "structured" -> "none"
      [] o = "tagged"     -> "tagged"
      [] o = "empty"      -> "API Failure after retries"
      [] o = "raised"     -> "exception"

\* Mutant: a falsy result merged like a structured one, without error key.
MergeRow_NoErrorOnEmpty(uid, o) ==
    [uid |-> uid, tag |-> ErrorTag(o),
     cols |-> IF o = "empty" THEN {"field"} ELSE ResultColumns(o)]

\* The OutputRow built from the record and the future's outcome.
MergeRow(uid, o) ==
    [uid |-> uid, tag |-> ErrorTag(o), cols |-> ResultColumns(o)]

\* Whether the row has a value in the error column.
HasError(row) == "error" \in row.cols

\* pd.DataFrame(batch_results): the frame's columns are the union of the
\* rows' keys, and every line of the batch has that many fields.
BatchColumns(batch) == UNION {batch[i].cols : i \in DOMAIN batch}

\* A line of the file: a header line (h), or the line of an OutputRow with
\* its UID and whether its error field is filled; w counts the line's
\* fields beyond the original columns.
HeaderLine(batch) ==
    [h |-> TRUE, uid |-> 0, err |-> FALSE,
     w |-> Cardinality(BatchColumns(batch))]

RowLines(batch) ==
    [i \in DOMAIN batch |->
        [h |-> FALSE, uid |-> batch[i].uid, err |-> HasError(batch[i]),
         w |-> Cardinality(BatchColumns(batch))]]

\* _save_batch_results: nothing for an empty batch; otherwise to_csv appends
\* the batch, with a header line first when write_header.  ok = FALSE is
\* to_csv raising (caught and logged): nothing reaches the file.
SaveBatch(s, batch, write_header, ok) ==
    IF batch = <<>> \/ ~ok THEN s
    ELSE s \o (IF write_header THEN <<HeaderLine(batch)>> ELSE <<>>)
           \o RowLines(batch)

Max(a, b) == IF a >= b THEN a ELSE b

\* pd.read_csv on the sink: the first line is taken as the header; a line
\* after the first data line with more fields than the lines before it is a
\* ParserError, which read_csv_robustly turns into None.  An empty file is
\* an EmptyDataError, None as well.
Readable(s) ==
    /\ s # <<>>
    /\ \A i \in 3..Len(s) : s[i].w <= Max(s[1].w, s[2].w)

\* processed_uids: the UID column of the sink when resume is requested, the
\* sink parses and its header has a UID column; empty otherwise.
ResumeSet(s, resume) ==
    IF resume /\ Readable(s) /\ s[1].h
    THEN {s[i].uid : i \in {j \in 2..Len(s) : ~s[j].h}}
    ELSE {}

\* What reading the sink for resume puts on the queue (lines 74-81 and
\* read_csv_robustly): its error message when the file exists and does not
\* parse, the count message when the UID column was read, nothing when the
\* file parses without a UID column or does not exist.
ResumeMessages(s, resume) ==
    IF ~resume \/ s = <<>> THEN <<>>
    ELSE IF ~Readable(s) THEN <<"sink_unreadable">>
    ELSE IF s[1].h THEN <<"resume_found">>
    ELSE <<>>

\* df_to_process: the source rows whose UID is not in processed_uids, capped
\* to the first process_count rows when process_count > 0.
\* Mutant: the cap keeping the last rows in place of the first.
ApplyLimit_Tail(rows, limit) ==
    IF limit > 0 /\ Len(rows) > limit
    THEN SubSeq(rows, Len(rows) - limit + 1, Len(rows))
    ELSE rows

ApplyLimit(rows, limit) == IF limit > 0 THEN HeadN(rows, limit) ELSE rows

\* Mutant: the resume set ignored by the filter.
Filter_NoExclude(processed, limit) == ApplyLimit(SourceUIDs, limit)

Filter(processed, limit) ==
    ApplyLimit(SelectInOrder(SourceUIDs, UIDs \ processed), limit)

\* Mutant: the flush test with > in place of >=.
ShouldFlush_Late(batch) == Len(batch) > SAVE_INTERVAL

\* The flush test of the collection loop.
ShouldFlush(batch) == Len(batch) >= SAVE_INTERVAL

\* What reading input_file gives (lines 61-70): a table with the required
\* columns, nothing (read_csv_robustly returned None), or a table that lacks
\* a required column.
Sources == {"ok", "unreadable", "no_columns"}

\* Mutant: the required columns not checked.
SourceFailure_ColumnsUnchecked(src) ==
    IF src = "unreadable" THEN "source_error" ELSE "none"

\* The failure message that ends the run before the sink is looked at
\* ("none": the run goes on).
SourceFailure(src) ==
    CASE src = "unreadable" -> "source_error"
      [] src = "no_columns" -> "missing_columns"
      [] src = "ok"         -> "none"

\* Line 102: os.path.getsize is called when the file exists and raises
\* OSError when the file is inaccessible.
GetsizeRaises(s) == IF s # <<>> THEN BOOLEAN ELSE {FALSE}

\* Mutant: run_analysis without its except clause.
ExceptClause_Absent(exc) == [msgs |-> <<>>, propagates |-> exc]

\* Lines 47-48: an exception that left _execute_analysis is reported on the
\* queue and goes no further.
ExceptClause(exc) ==
    [msgs |-> IF exc THEN <<"fatal_error">> ELSE <<>>, propagates |-> FALSE]

\* Mutant: the event put on the queue before the counter is increased.
ProgressEvent_BeforeIncrement(count, total) ==
    [n |-> count - 1, total |-> total]

\* Line 148: the progress event of a merged completion.
ProgressEvent(count, total) == [n |-> count, total |-> total]

\* A write to the sink succeeds or, while the bound allows, fails.
WriteOutcomes == IF nWriteFail < MaxWriteFailures THEN BOOLEAN ELSE {TRUE}

\* ------------------------------------------------------------------ state
\* A future is "none" (not submitted), "queued", "running", "done" or
\* "cancelled".  What a done future holds is drawn when the collection loop
\* reads it (future.result()): nothing else reads it before.
NoFutures == [u \in UIDs |-> "none"]

StatesOf(st) == {u \in UIDs : fut[u] = st}

\* The UIDs the run has submitted so far.
Submitted == {todo[i] : i \in 1..nsub}

\* The pipeline before the first run.
PipelineIdle ==
    /\ sink = <<>>
    /\ pc = "idle"
    /\ stop_event = FALSE
    /\ msgs = <<>>
    /\ process_count = 0
    /\ resume_mode = TRUE
    /\ source = "ok"
    /\ processed_uids = {}
    /\ todo = <<>>
    /\ nsub = 0
    /\ fut = NoFutures
    /\ yielded = {}
    /\ batch_results = <<>>
    /\ header_written = FALSE
    /\ processed_count = 0
    /\ flushLog = <<>>
    /\ merged = {}
    /\ failed = {}
    /\ sinkAtStart = 0
    /\ stopDuring = FALSE
    /\ nDoneAtStop = 0
    /\ stopEarly = FALSE
    /\ doneAtObserve = {}
    /\ observed = FALSE
    /\ progress = <<>>
    /\ escaped = FALSE
    /\ propagated = FALSE
    /\ stopRequested = FALSE
    /\ runs = 0
    /\ subPrev = {}
    /\ anyStop = FALSE
    /\ allResume = TRUE
    /\ nWriteFail = 0

Init ==
    /\ PipelineIdle
    /\ flat = NoCall
    /\ clean = NoCall
    /\ client = NoCall
    /\ task = NoCall
    /\ chan = NoCall
    /\ ui = NoCall

\* ---------------------------------------------------------------- actions
\* App._start_analysis_thread: the GUI launches run_analysis in a thread.
\* The locals of the previous run are gone; the history of the run restarts.
StartThread(limit, resume, src) ==
    /\ pc = "idle"
    /\ runs < MaxRuns
    /\ pc' = "launched"
    /\ process_count' = limit
    /\ resume_mode' = resume
    /\ source' = src
    /\ msgs' = <<>>
    /\ processed_uids' = {}
    /\ todo' = <<>>
    /\ nsub' = 0
    /\ fut' = NoFutures
    /\ yielded' = {}
    /\ batch_results' = <<>>
    /\ header_written' = FALSE
    /\ processed_count' = 0
    /\ flushLog' = <<>>
    /\ merged' = {}
    /\ failed' = {}
    /\ sinkAtStart' = Len(sink)
    /\ stopDuring' = FALSE
    /\ nDoneAtStop' = 0
    /\ stopEarly' = FALSE
    /\ doneAtObserve' = {}
    /\ observed' = FALSE
    /\ progress' = <<>>
    /\ escaped' = FALSE
    /\ propagated' = FALSE
    /\ stopRequested' = FALSE
    /\ runs' = runs + 1
    /\ subPrev' = subPrev \cup Submitted
    /\ allResume' = (allResume /\ resume)
    /\ UNCHANGED <<sink, stop_event, anyStop, nWriteFail>>
    /\ UNCHANGED callVars

\* DataProcessor.stop, called from the GUI thread while a run is going.
Stop ==
    /\ pc # "idle"
    /\ ~stop_event
    /\ stop_event' = TRUE
    /\ stopDuring' = (pc # "launched")
    /\ nDoneAtStop' = Cardinality(StatesOf("done"))
    /\ stopEarly' = (pc = "submit" /\ nsub < Len(todo))
    /\ anyStop' = TRUE
    /\ stopRequested' = TRUE
    /\ UNCHANGED <<sink, pc, msgs, args, runLocal, flushLog, merged, failed,
                   sinkAtStart, doneAtObserve, observed, progress, escaped,
                   propagated, runs, subPrev, allResume, nWriteFail>>
    /\ UNCHANGED callVars

\* run_analysis line 44 and _execute_analysis lines 61-102: the flag is
\* reset and the source is read; a source that cannot be read or lacks a
\* required column ends the run.  Otherwise the sink is read, the records
\* are filtered, and an empty selection ends the run.  Line 102 then looks
\* at the sink; an exception it raises leaves _execute_analysis and meets
\* the except clause of run_analysis.
RunBegin ==
    /\ pc = "launched"
    /\ stop_event' = FALSE
    /\ IF SourceFailure(source) # "none"
       THEN /\ msgs' = Append(msgs, SourceFailure(source))
            /\ pc' = "finally"
            /\ UNCHANGED <<processed_uids, todo, header_written, escaped,
                           propagated>>
       ELSE LET processed == ResumeSet(sink, resume_mode)
                rows == Filter(processed, process_count)
                read == msgs \o ResumeMessages(sink, resume_mode)
            IN /\ processed_uids' = processed
               /\ todo' = rows
               /\ IF rows = <<>>
                  THEN /\ msgs' = Append(read, "nothing_to_do")
                       /\ pc' = "finally"
                       /\ UNCHANGED <<header_written, escaped, propagated>>
                  ELSE \E exc \in GetsizeRaises(sink) :
                         LET handled == ExceptClause(exc)
                         IN /\ msgs' = read \o handled.msgs
                            /\ pc' = (IF exc THEN "finally" ELSE "submit")
                            /\ header_written' = (~exc /\ sink # <<>>)
                            /\ escaped' = exc
                            /\ propagated' = handled.propagates
    /\ UNCHANGED <<sink, args, nsub, fut, yielded, batch_results,
                   processed_count, flushLog, merged, failed, sinkAtStart,
                   stopDuring, nDoneAtStop, stopEarly, doneAtObserve,
                   observed, progress, stopRequested, allHist>>
    /\ UNCHANGED callVars

\* One pass of the submission loop (lines 107-116): the flag is checked,
\* then the row's task is submitted.
Submit ==
    /\ pc = "submit"
    /\ ~stop_event
    /\ nsub < Len(todo)
    /\ fut' = [fut EXCEPT ![todo[nsub + 1]] = "queued"]
    /\ nsub' = nsub + 1
    /\ UNCHANGED <<sink, pc, stop_event, msgs, args, processed_uids, todo,
                   yielded, batch_results, header_written, processed_count,
                   runHist, allHist>>
    /\ UNCHANGED callVars

\* Mutant: the collection loop entered with rows still to submit.
SubmitEnd_Early ==
    /\ pc = "submit"
    /\ pc' = "collect"
    /\ UNCHANGED <<sink, stop_event, msgs, args, runLocal, runHist, allHist>>
    /\ UNCHANGED callVars

\* The submission loop ends: every row was submitted, or line 108 breaks.
SubmitEnd ==
    /\ pc = "submit"
    /\ stop_event \/ nsub = Len(todo)
    /\ pc' = "collect"
    /\ UNCHANGED <<sink, stop_event, msgs, args, runLocal, runHist, allHist>>
    /\ UNCHANGED callVars

Running == StatesOf("running")

\* The executor's work queue is FIFO: an idle worker takes the task that was
\* submitted first among those still queued.
FirstQueued(u) ==
    \E i \in 1..nsub :
        /\ todo[i] = u
        /\ fut[u] = "queued"
        /\ \A j \in 1..(i - 1) : fut[todo[j]] # "queued"

\* A worker thread starts _analyze_single_document for a queued task.
WorkerStart(u) ==
    /\ FirstQueued(u)
    /\ Cardinality(Running) < MAX_WORKERS
    /\ fut' = [fut EXCEPT ![u] = "running"]
    /\ UNCHANGED <<sink, pc, stop_event, msgs, args, processed_uids, todo,
                   nsub, yielded, batch_results, header_written,
                   processed_count, runHist, allHist>>
    /\ UNCHANGED callVars

\* Mutant: the worker appending its own row to the output file.
WorkerFinish_Saves(u) ==
    /\ fut[u] = "running"
    /\ fut' = [fut EXCEPT ![u] = "done"]
    /\ sink' = SaveBatch(sink, <<MergeRow(u, "structured")>>, FALSE, TRUE)
    /\ UNCHANGED <<pc, stop_event, msgs, args, processed_uids, todo,
                   nsub, yielded, batch_results, header_written,
                   processed_count, runHist, allHist>>
    /\ UNCHANGED callVars

\* The task ends: it returned a mapping or a falsy value, or it raised.
\* _analyze_single_document (lines 162-179) touches neither the buffer nor
\* the file.
WorkerFinish(u) ==
    /\ fut[u] = "running"
    /\ fut' = [fut EXCEPT ![u] = "done"]
    /\ UNCHANGED <<sink, pc, stop_event, msgs, args, processed_uids, todo,
                   nsub, yielded, batch_results, header_written,
                   processed_count, runHist, allHist>>
    /\ UNCHANGED callVars

\* Lines 152-153: what the loop does to its flag and its buffer after the
\* call of _save_batch_results, whether or not the write succeeded.
HeaderAfterFlush(hw, ok) == TRUE
BufferAfterFlush(batch, ok) == <<>>

FlushEntry(batch, hdr, ok, final) ==
    [n |-> Len(batch), hdr |-> hdr, ok |-> ok, final |-> final]

\* One pass of the collection loop (lines 119-153) for a future that
\* as_completed yields while the flag is not set: the result is merged, the
\* progress is reported, and the buffer is flushed when it is full.
Collect(u, o) ==
    /\ pc = "collect"
    /\ fut[u] = "done"
    /\ u \notin yielded
    /\ ~stop_event
    /\ yielded' = yielded \cup {u}
    /\ merged' = merged \cup {u}
    /\ failed' = (IF o = "structured" THEN failed ELSE failed \cup {u})
    /\ processed_count' = processed_count + 1
    /\ progress' = Append(progress,
                          ProgressEvent(processed_count + 1, Len(todo)))
    /\ LET batch == Append(batch_results, MergeRow(u, o))
       IN IF ShouldFlush(batch)
          THEN \E ok \in WriteOutcomes :
                 /\ sink' = SaveBatch(sink, batch, ~header_written, ok)
                 /\ header_written' = HeaderAfterFlush(header_written, ok)
                 /\ batch_results' = BufferAfterFlush(batch, ok)
                 /\ flushLog' = Append(flushLog,
                        FlushEntry(batch, ~header_written, ok, FALSE))
                 /\ nWriteFail' = (IF ok THEN nWriteFail ELSE nWriteFail + 1)
          ELSE /\ batch_results' = batch
               /\ UNCHANGED <<sink, header_written, flushLog, nWriteFail>>
    /\ UNCHANGED <<pc, stop_event, msgs, args, processed_uids, todo, nsub,
                   fut, sinkAtStart, stopDuring, nDoneAtStop, stopEarly,
                   doneAtObserve, observed, escaped, propagated,
                   stopRequested, runs, subPrev, anyStop, allResume>>
    /\ UNCHANGED callVars

\* Lines 120-124: as_completed yields a future while the flag is set; every
\* future is cancelled (only a queued one can be) and the loop breaks.
CancelAll(f) ==
    [u \in UIDs |-> IF f[u] = "queued" THEN "cancelled" ELSE f[u]]

CollectBreak(u) ==
    /\ pc = "collect"
    /\ fut[u] = "done"
    /\ u \notin yielded
    /\ stop_event
    /\ yielded' = yielded \cup {u}
    /\ fut' = CancelAll(fut)
    /\ observed' = TRUE
    /\ doneAtObserve' = StatesOf("done")
    /\ pc' = "drain"
    /\ UNCHANGED <<sink, stop_event, msgs, args, processed_uids, todo, nsub,
                   batch_results, header_written, processed_count, flushLog,
                   merged, failed, sinkAtStart, stopDuring, nDoneAtStop,
                   stopEarly, progress, escaped, propagated, stopRequested,
                   allHist>>
    /\ UNCHANGED callVars

\* as_completed is exhausted: every submitted future has been yielded.
CollectEnd ==
    /\ pc = "collect"
    /\ yielded = Submitted
    /\ pc' = "drain"
    /\ UNCHANGED <<sink, stop_event, msgs, args, runLocal, runHist, allHist>>
    /\ UNCHANGED callVars

\* Mutant: the final save skipped for a batch below the threshold.
RemainderToSave_FullOnly(batch) ==
    IF Len(batch) >= SAVE_INTERVAL THEN batch ELSE <<>>

\* Lines 155-157: the rows the final save is handed, whatever their number.
RemainderToSave(batch) == batch

\* Leaving the with block waits for the running tasks (shutdown(wait=True));
\* then lines 155-159: the remaining rows are saved and the completion
\* message is put on the queue.
Finish ==
    /\ pc = "drain"
    /\ StatesOf("running") = {}
    /\ StatesOf("queued") = {}
    /\ LET rest == RemainderToSave(batch_results)
       IN IF rest # <<>>
          THEN \E ok \in WriteOutcomes :
                 /\ sink' = SaveBatch(sink, rest, ~header_written, ok)
                 /\ flushLog' = Append(flushLog,
                        FlushEntry(rest, ~header_written, ok, TRUE))
                 /\ nWriteFail' = (IF ok THEN nWriteFail ELSE nWriteFail + 1)
          ELSE UNCHANGED <<sink, flushLog, nWriteFail>>
    /\ msgs' = Append(msgs, "analysis_complete")
    /\ pc' = "finally"
    /\ UNCHANGED <<stop_event, args, runLocal, merged, failed, sinkAtStart,
                   stopDuring, nDoneAtStop, stopEarly, doneAtObserve,
                   observed, progress, escaped, propagated, stopRequested,
                   runs, subPrev, anyStop, allResume>>
    /\ UNCHANGED callVars

\* The finally clause of run_analysis (lines 49-53): the terminal report.
TerminalReport(stopped) == IF stopped THEN "cancelled" ELSE "completed"

Report ==
    /\ pc = "finally"
    /\ msgs' = Append(msgs, TerminalReport(stop_event))
    /\ pc' = "idle"
    /\ UNCHANGED <<sink, stop_event, args, runLocal, runHist, allHist>>
    /\ UNCHANGED callVars

\* A step of the run's thread or of a worker.
RunStep ==
    \/ RunBegin
    \/ Submit
    \/ SubmitEnd
    \/ \E u \in UIDs : WorkerStart(u)
    \/ \E u \in UIDs : WorkerFinish(u)
    \/ \E u \in UIDs, o \in Outcomes : Collect(u, o)
    \/ \E u \in UIDs : CollectBreak(u)
    \/ CollectEnd
    \/ Finish
    \/ Report

Next ==
    \/ \E limit \in 0..MaxLimit, resume \in BOOLEAN, src \in Sources :
           StartThread(limit, resume, src)
    \/ Stop
    \/ RunStep

Spec == Init /\ [][Next]_vars

\* ------------------------------------------------------------- vocabulary
Last(s) == s[Len(s)]

\* The lines of the sink that are OutputRows, and those the current run added.
RowIdx == {i \in DOMAIN sink : ~sink[i].h}
RunRowIdx == {i \in RowIdx : i > sinkAtStart}
RunRowUIDs == {sink[i].uid : i \in RunRowIdx}
RowCount(u) == Cardinality({i \in RowIdx : sink[i].uid = u})
RunRowCount(u) == Cardinality({i \in RunRowIdx : sink[i].uid = u})

BufferUIDs == {batch_results[i].uid : i \in DOMAIN batch_results}

\* The run has emitted its terminal report.
Ended == pc = "idle" /\ runs > 0

\* Every write of the current run succeeded.
RunWritesOK == \A i \in DOMAIN flushLog : flushLog[i].ok

\* The flushes of the collection loop (before the final one).
Intermediate == {i \in DOMAIN flushLog : ~flushLog[i].final}

\* The collection loop has ended with every selected record merged.
AllMerged ==
    /\ pc \in {"drain", "finally", "idle"}
    /\ todo # <<>>
    /\ merged = SeqToSet(todo)

\* ------------------------------------------------------------------ claims

\* C1: resume idempotence.  With every run resume-enabled and every write
\* succeeding, the sink holds at most one OutputRow per UID at every point,
\* and exactly one per UID once a run without limit has completed normally.
C1_ResumeIdempotent ==
    (allResume /\ nWriteFail = 0) =>
        /\ \A u \in UIDs : RowCount(u) <= 1
        /\ (Ended /\ process_count = 0 /\ Last(msgs) = "completed"
                  /\ source = "ok" /\ ~escaped)
              => \A u \in UIDs : RowCount(u) = 1

\* C2: cancellation never discards a completed result.  Every task that was
\* done when the collection loop observed the stop flag has its OutputRow in
\* the sink when the run has ended (the writes succeeding).
C2_CompletedNotDiscarded ==
    (Ended /\ observed /\ RunWritesOK) => doneAtObserve \subseteq RunRowUIDs

\* C3: cancellation bounds.  When the stop flag was set before all N tasks
\* were submitted, the run adds at most N OutputRows to the sink and at least
\* as many as there were completed tasks when the flag was set.
C3_CancellationBounds ==
    (Ended /\ stopDuring /\ stopEarly /\ RunWritesOK) =>
        /\ Cardinality(RunRowIdx) <= Len(todo)
        /\ Cardinality(RunRowIdx) >= nDoneAtStop

\* C4: terminal report.  A run during which the stop flag was set ends with
\* the cancelled report and emits neither the completed report nor the
\* completion message; a run in which it was never set ends with completed.
C4_TerminalReport ==
    Ended =>
        IF stopDuring
        THEN /\ Last(msgs) = "cancelled"
             /\ \A i \in DOMAIN msgs :
                    msgs[i] \notin {"completed", "analysis_complete"}
        ELSE Last(msgs) = "completed"

\* C5: no data loss.  Every OutputRow the run has merged is in the batch
\* buffer or in the sink, at every point, also after a failed write.
C5_NoDataLoss ==
    merged \subseteq (BufferUIDs \cup RunRowUIDs)

\* C6: header exactly once.  A sink that started empty and holds an
\* OutputRow holds exactly one header line, before every OutputRow; a run
\* that found the sink non-empty adds no header line.
C6_HeaderOnce ==
    /\ RowIdx # {} =>
          /\ sink[1].h
          /\ \A i \in 2..Len(sink) : ~sink[i].h
    /\ sinkAtStart > 0 => \A i \in (sinkAtStart + 1)..Len(sink) : ~sink[i].h

\* C7: checkpointing.  The buffer never holds more than SAVE_INTERVAL rows;
\* every flush of the collection loop carries exactly SAVE_INTERVAL rows and
\* comes before the final flush; while the writes succeed the sink has
\* received those rows before the final flush; and a run that merged all of
\* its N > SAVE_INTERVAL records made at least N div SAVE_INTERVAL of them.
C7_Checkpointing ==
    /\ Len(batch_results) <= SAVE_INTERVAL
    /\ \A i \in Intermediate : flushLog[i].n = SAVE_INTERVAL
    /\ \A i \in DOMAIN flushLog : flushLog[i].final => i = Len(flushLog)
    /\ (pc \in {"collect", "drain"} /\ RunWritesOK) =>
          Cardinality(RunRowIdx) = SAVE_INTERVAL * Cardinality(Intermediate)
    /\ (AllMerged /\ Len(todo) > SAVE_INTERVAL) =>
          Cardinality(Intermediate) >= Len(todo) \div SAVE_INTERVAL

\* A run not cancelled has merged all of its N > SAVE_INTERVAL records and
\* stands before the final flush, a checkpoint in the sink.
C7_Witness ==
    /\ AllMerged
    /\ pc = "drain"
    /\ ~stopDuring
    /\ Len(todo) > SAVE_INTERVAL
    /\ Cardinality(Intermediate) >= 1
    /\ RunWritesOK
    /\ batch_results # <<>>

\* C8: remainder flush.  Before the terminal report of a run that ended by
\* completion or by cancellation, the rows left in the buffer, however few,
\* have been handed to the final save (and are in the sink when that write
\* succeeded); the run writes no row twice.
C8_RemainderFlush ==
    /\ (pc \in {"finally", "idle"} /\ batch_results # <<>>) =>
          /\ flushLog # <<>>
          /\ Last(flushLog).final
          /\ Last(flushLog).n = Len(batch_results)
          /\ Last(flushLog).ok => BufferUIDs \subseteq RunRowUIDs
    /\ \A u \in UIDs : RunRowCount(u) <= 1

\* A cancelled run stands before its terminal report with a remainder below
\* the threshold saved.
C8_Witness ==
    /\ pc = "finally"
    /\ observed
    /\ batch_results # <<>>
    /\ Len(batch_results) < SAVE_INTERVAL
    /\ Last(flushLog).final
    /\ Last(flushLog).ok
    /\ BufferUIDs \subseteq RunRowUIDs

\* C9: per-record failure containment.  A run without stop request whose
\* writes succeed is never blocked, and when it has ended (its tasks
\* submitted: no exception met before the pool) it has added
\* exactly one OutputRow per filtered record, the error field filled exactly
\* in the rows of the records whose task gave no structured result, and its
\* terminal report is the completed one.
C9_FailureContainment ==
    /\ (pc # "idle" /\ ~stopDuring) => ENABLED RunStep
    /\ (Ended /\ ~stopDuring /\ RunWritesOK /\ ~escaped) =>
          /\ RunRowUIDs = SeqToSet(todo)
          /\ \A u \in UIDs : RunRowCount(u) <= 1
          /\ \A i \in RunRowIdx : sink[i].err <=> (sink[i].uid \in failed)
          /\ Last(msgs) = "completed"

\* A run has ended after tasks with a failing outcome, among them a falsy
\* result: each has its error row in the sink.
C9_Witness ==
    /\ Ended
    /\ ~stopDuring
    /\ RunWritesOK
    /\ Cardinality(failed) >= 2
    /\ failed # SeqToSet(todo)
    /\ \E i \in DOMAIN batch_results :
           batch_results[i].tag = "API Failure after retries"
    /\ \A u \in failed : \E i \in RunRowIdx : sink[i].uid = u /\ sink[i].err

\* C10: no record is submitted in more than one run of a sequence of
\* resume-enabled runs.  Stated for the runs that end by completion or by
\* the processing limit, with every write succeeding.
C10_NoResubmission ==
    (allResume /\ nWriteFail = 0 /\ ~anyStop) => Submitted \cap subPrev = {}

\* The sink as the run found it.
SinkAtStart == SubSeq(sink, 1, sinkAtStart)

\* C11: within one run no record whose UID is in the ResumeSet computed at
\* run start is submitted, and every other selected record is submitted at
\* most once; only submitted records have a future.
C11_ResumeSetNotSubmitted ==
    /\ (pc # "launched" /\ source = "ok") =>
          processed_uids = ResumeSet(SinkAtStart, resume_mode)
    /\ Submitted \cap processed_uids = {}
    /\ \A i, j \in 1..nsub : todo[i] = todo[j] => i = j
    /\ \A u \in UIDs : fut[u] # "none" => u \in Submitted

\* A resumed run with a non-empty ResumeSet has submitted all of its records.
C11_Witness ==
    /\ pc = "collect"
    /\ processed_uids # {}
    /\ nsub > 0
    /\ nsub = Len(todo)

\* C20: unreadable resume sink.  When resume is requested and the existing
\* sink does not parse or has no UID column, the run proceeds with an empty
\* ResumeSet, every source record is eligible, a warning is on the queue,
\* and the run is not aborted.
C20_UnreadableSink ==
    (/\ pc # "launched"
     /\ source = "ok"
     /\ ~escaped
     /\ resume_mode
     /\ sinkAtStart > 0
     /\ ~(Readable(SinkAtStart) /\ SinkAtStart[1].h)) =>
        /\ processed_uids = {}
        /\ todo = ApplyLimit(SourceUIDs, process_count)
        /\ \E i \in DOMAIN msgs : msgs[i] = "sink_unreadable"
        /\ Ended => \E i \in DOMAIN msgs : msgs[i] = "analysis_complete"

\* The ResumeSet of the run, from the sink as the run found it, and the
\* source records outside it.
RunResumeSet == ResumeSet(SinkAtStart, resume_mode)
Eligible == UIDs \ RunResumeSet

\* The run has left _execute_analysis.
Left == pc \in {"finally", "idle"} /\ runs > 0

\* C21: run-level early exit.  When the source cannot be read or lacks a
\* required column the run reports the failure and ends with no task
\* submitted and the sink as it found it, no write attempted; when every
\* source record is in the ResumeSet the run reports that nothing is to be
\* done, again with no task submitted and the sink untouched.
C21_EarlyExit ==
    /\ (pc # "launched" /\ source # "ok") =>
          /\ Left
          /\ \E i \in DOMAIN msgs :
                 msgs[i] \in {"source_error", "missing_columns"}
          /\ nsub = 0
          /\ fut = NoFutures
          /\ flushLog = <<>>
          /\ Len(sink) = sinkAtStart
    /\ (pc # "launched" /\ source = "ok" /\ Eligible = {}) =>
          /\ Left
          /\ \E i \in DOMAIN msgs : msgs[i] = "nothing_to_do"
          /\ nsub = 0
          /\ fut = NoFutures
          /\ flushLog = <<>>
          /\ Len(sink) = sinkAtStart
          /\ (Ended /\ ~stopDuring) => Last(msgs) = "completed"

\* A run on a source without the required columns has ended, the sink of
\* the earlier run as it was.
C21_Witness ==
    /\ Ended
    /\ source = "no_columns"
    /\ sinkAtStart > 0
    /\ msgs = <<"missing_columns", "completed">>

\* C22: filter and limit.  What a run that is not cancelled submits is the
\* source records outside the ResumeSet, in source order (the order of the
\* UIDs), cut to the first process_count of them when process_count > 0 and
\* all of them when it is 0.
C22_FilterAndLimit ==
    (/\ pc \in {"collect", "drain", "finally"} \/ Ended
     /\ source = "ok"
     /\ ~escaped
     /\ ~stopDuring) =>
        LET n == IF process_count > 0 /\ process_count < Cardinality(Eligible)
                 THEN process_count
                 ELSE Cardinality(Eligible)
        IN /\ nsub = n
           /\ Submitted \subseteq Eligible
           /\ \A i, j \in 1..nsub : i < j => todo[i] < todo[j]
           /\ \A u \in Eligible \ Submitted : \A v \in Submitted : v < u

\* A resumed run with a limit has submitted the first of several eligible
\* records and no other.
C22_Witness ==
    /\ pc = "collect"
    /\ ~stopDuring
    /\ process_count = 1
    /\ RunResumeSet # {}
    /\ Cardinality(Eligible) > 1
    /\ nsub = 1

\* C23: progress events.  The i-th event of a run carries processed_count i
\* and the size of the selected set as total_count, one event per merged
\* completion, never beyond the total; a run that is not cancelled ends
\* with the event (total_count, total_count) as its last one.
C23_ProgressEvents ==
    /\ \A i \in DOMAIN progress :
          /\ progress[i].n = i
          /\ progress[i].total = Len(todo)
          /\ progress[i].n <= progress[i].total
    /\ Len(progress) = Cardinality(merged)
    /\ (Ended /\ ~stopDuring /\ ~escaped /\ todo # <<>>) =>
          Last(progress) = [n |-> Len(todo), total |-> Len(todo)]

\* A run over the whole table has ended with one event per record.
C23_Witness ==
    /\ Ended
    /\ ~stopDuring
    /\ Len(progress) = NumRecords
    /\ Last(progress).n = NumRecords

\* C25: run_analysis never propagates an exception.  An exception that left
\* _execute_analysis is reported on the queue, the finally clause puts the
\* run's terminal report right after it, and nothing reaches the caller.
C25_NoPropagation ==
    /\ ~propagated
    /\ escaped =>
          /\ Left
          /\ \E i \in DOMAIN msgs : msgs[i] = "fatal_error"
          /\ Ended =>
                /\ Len(msgs) >= 2
                /\ msgs[Len(msgs) - 1] = "fatal_error"
                /\ Last(msgs) = TerminalReport(stop_event)

\* A run whose look at the sink raised has ended with the failure reported.
C25_Witness ==
    /\ Ended
    /\ escaped
    /\ todo # <<>>
    /\ nsub = 0
    /\ \E i \in DOMAIN msgs : msgs[i] = "fatal_error"

\* A step of a worker thread, and a step of the collection path of the
\* run's thread (the collection loop and the final save).
WorkerStep == \E u \in UIDs : WorkerStart(u) \/ WorkerFinish(u)
CollectionStep == (\E u \in UIDs, o \in Outcomes : Collect(u, o)) \/ Finish

\* C26: single writer.  No step of a worker changes the batch buffer, the
\* header flag or the sink; once the run has set up its locals these change
\* only in steps of the collection path.
C26_SingleWriter ==
    [][/\ WorkerStep => UNCHANGED <<batch_results, header_written, sink>>
       /\ (<<batch_results, header_written, sink>>' #
               <<batch_results, header_written, sink>>)
             => (CollectionStep \/ RunBegin
                   \/ \E limit \in 0..MaxLimit, resume \in BOOLEAN,
                         src \in Sources : StartThread(limit, resume, src))
      ]_vars

\* A task has finished and another is running while the buffer and the sink
\* hold rows.
C26_Witness ==
    /\ pc = "collect"
    /\ batch_results # <<>>
    /\ sink # <<>>
    /\ \E u \in UIDs : fut[u] = "done" /\ u \notin yielded
    /\ \E u \in UIDs : fut[u] = "running"

\* C27: a stop request is never lost.  A run (on a readable source) during
\* which stop() was called after its thread was launched ends with the
\* cancelled terminal report.
C27_StopNotLost ==
    (Ended /\ stopRequested /\ source = "ok") => Last(msgs) = "cancelled"

\* C29: once stop() was called in a run, no record is submitted and no
\* record not yet submitted gets a task; a running task goes on to its end.
C29_NoSubmissionAfterStop ==
    [][/\ stopRequested =>
             /\ nsub' <= nsub
             /\ \A u \in UIDs : fut[u] = "none" => fut'[u] = "none"
       /\ \A u \in UIDs :
             fut[u] = "running" => fut'[u] \in {"running", "done"}
      ]_vars

\* The OutputRows with an error that the run found in the sink.
ErrorRowsAtStart == {i \in RowIdx : i <= sinkAtStart /\ sink[i].err}

\* C31: an error row counts as processed.  In a run with resume, the UID of
\* every OutputRow with an error that the sink held at run start is in the
\* run's ResumeSet and is not submitted (every write so far having
\* succeeded).
C31_ErrorRowsProcessed ==
    (pc # "launched" /\ source = "ok" /\ resume_mode /\ nWriteFail = 0) =>
        \A i \in ErrorRowsAtStart :
            /\ sink[i].uid \in processed_uids
            /\ sink[i].uid \notin Submitted

\* C32: collection follows submission.  A step of a run that merges a
\* result, emits a progress event or flushes is a step after the submission
\* loop (every selected record submitted, or the loop left on the stop
\* flag); and once a run has merged, reported progress or flushed, it
\* submits nothing.
C32_CollectAfterSubmit ==
    [][runs' = runs =>
          /\ (merged' # merged \/ progress' # progress
                \/ flushLog' # flushLog \/ sink' # sink) =>
                /\ pc \in {"collect", "drain"}
                /\ nsub = Len(todo) \/ stopDuring
          /\ (merged # {} \/ progress # <<>> \/ flushLog # <<>>) =>
                nsub' = nsub
      ]_vars

\* The collection loop of a run over the whole table has flushed, every
\* record submitted before.
C32_Witness ==
    /\ pc = "collect"
    /\ nsub = NumRecords
    /\ flushLog # <<>>
    /\ Len(sink) > sinkAtStart
    /\ Len(progress) = SAVE_INTERVAL

\* ------------------------------------------------- flatten_json_result
\* JSON values as the client's parser gives them.  Every value is a record
\* of one shape: t names the type, and the field of that type carries the
\* value: n an integer, s a string, l the elements of a list (integers),
\* d the items of a mapping in insertion order, each [k |-> key, v |-> value].
IntV(n) == [t |-> "int", n |-> n, s |-> "", l |-> <<>>, d |-> <<>>]
StrV(s) == [t |-> "str", n |-> 0, s |-> s, l |-> <<>>, d |-> <<>>]
ListV(l) == [t |-> "list", n |-> 0, s |-> "", l |-> l, d |-> <<>>]
DictV(d) == [t |-> "dict", n |-> 0, s |-> "", l |-> <<>>, d |-> d]

\* Largest number of key-value pairs of an input mapping, nested ones
\* counted, and largest nesting depth of its mappings.
MaxPairs == 4
MaxDepth == 2

\* The keys and the scalar and list leaves the inputs are built from.
Keys == {"", "a", "b", "a_b"}
LeafValues == {IntV(1), ListV(<<3, 4>>)}

KeysOf(items) == {items[i].k : i \in DOMAIN items}

RECURSIVE PairCount(_)
\* The number of key-value pairs of a value, nested ones counted.
PairCount(v) ==
    IF v.t # "dict" \/ v.d = <<>> THEN 0
    ELSE 1 + PairCount(Head(v.d).v) + PairCount(DictV(Tail(v.d)))

RECURSIVE ItemSeqs(_, _)
\* The item sequences with distinct keys, at most n pairs in all and
\* mappings nested to depth at most depth.
ItemSeqs(n, depth) ==
    IF n = 0 \/ depth = 0 THEN {<<>>}
    ELSE {<<>>} \cup
         UNION {
           UNION {
             {<<[k |-> k, v |-> v]>> \o rest :
                 rest \in {r \in ItemSeqs(n - 1 - PairCount(v), depth) :
                               k \notin KeysOf(r)}}
             : v \in LeafValues \cup
                     (IF depth > 1
                      THEN {DictV(d) : d \in ItemSeqs(n - 1, depth - 1)}
                      ELSE {})}
           : k \in Keys}

\* The inputs of flatten_json_result: the mappings, and the scalars and
\* lists for the degenerate case.
Mappings == {DictV(d) : d \in ItemSeqs(MaxPairs, MaxDepth)}
FlattenInputs == Mappings \cup LeafValues

RECURSIVE JoinStrings(_)
\* ', '.join(map(str, v)) for a list of integers.
JoinStrings(l) ==
    IF l = <<>> THEN ""
    ELSE IF Len(l) = 1 THEN ToString(l[1])
    ELSE ToString(l[1]) \o ", " \o JoinStrings(Tail(l))

\* items[key] = value on a dict: the value of an existing key is replaced
\* in place, a new key is added at the end.
SetItem(items, key, value) ==
    IF key \in KeysOf(items)
    THEN [i \in DOMAIN items |->
             IF items[i].k = key THEN [k |-> key, v |-> value] ELSE items[i]]
    ELSE Append(items, [k |-> key, v |-> value])

RECURSIVE Update(_, _)
\* items.update(other).
Update(items, other) ==
    IF other = <<>> THEN items
    ELSE Update(SetItem(items, Head(other).k, Head(other).v), Tail(other))

\* Mutant: the separator put before a top-level key as well.
NewKey_AlwaysJoined(parent_key, k) == parent_key \o "_" \o k

\* Line 71: new_key = parent_key + sep + k if parent_key else k.
NewKey(parent_key, k) ==
    IF parent_key # "" THEN parent_key \o "_" \o k ELSE k

RECURSIVE flatten_json_result(_, _)
RECURSIVE FlattenItems(_, _, _)
\* The loop of lines 70-78 over the remaining items, items the result so far.
FlattenItems(rest, parent_key, items) ==
    IF rest = <<>> THEN items
    ELSE LET k == Head(rest).k
             v == Head(rest).v
             new_key == NewKey(parent_key, k)
         IN FlattenItems(Tail(rest), parent_key,
               IF v.t = "dict"
               THEN Update(items, flatten_json_result(v, new_key))
               ELSE IF v.t = "list"
               THEN SetItem(items, new_key, StrV(JoinStrings(v.l)))
               ELSE SetItem(items, new_key, v))

\* flatten_json_result(data, parent_key), sep = '_': the items of the
\* returned dict.
flatten_json_result(data, parent_key) ==
    IF data.t # "dict"
    THEN <<[k |-> IF parent_key # "" THEN parent_key ELSE "value",
            v |-> data]>>
    ELSE FlattenItems(data.d, parent_key, <<>>)

\* A dict as a function of its keys (dict equality ignores the order).
AsMap(items) ==
    [key \in KeysOf(items) |->
        items[CHOOSE i \in DOMAIN items : items[i].k = key].v]

\* The calls of the other functions stay unmade.
FlattenOnly ==
    /\ clean = NoCall
    /\ client = NoCall
    /\ task = NoCall
    /\ chan = NoCall
    /\ ui = NoCall

InitFlatten ==
    /\ PipelineIdle
    /\ FlattenOnly
    /\ flat \in {[step |-> "input", x |-> x, out |-> <<>>, again |-> <<>>] :
                    x \in FlattenInputs}

\* flatten_json_result(x) is called.
FlattenCall ==
    /\ flat.step = "input"
    /\ flat' = [flat EXCEPT !.step = "flattened",
                            !.out = flatten_json_result(flat.x, "")]
    /\ UNCHANGED <<pipelineVars, clean, client, task, chan, ui>>

\* flatten_json_result is called on the dict the first call returned.
FlattenAgain ==
    /\ flat.step = "flattened"
    /\ flat' = [flat EXCEPT !.step = "again",
                            !.again = flatten_json_result(DictV(flat.out), "")]
    /\ UNCHANGED <<pipelineVars, clean, client, task, chan, ui>>

NextFlatten ==
    \/ FlattenCall
    \/ FlattenAgain

SpecFlatten == InitFlatten /\ [][NextFlatten]_vars

RECURSIVE Leaves(_, _)
\* The scalar and list leaves under the items of a mapping, each with its
\* key path from the root.
Leaves(items, path) ==
    UNION {IF items[i].v.t = "dict"
           THEN Leaves(items[i].v.d, Append(path, items[i].k))
           ELSE {[path |-> Append(path, items[i].k), v |-> items[i].v]}
           : i \in DOMAIN items}

RECURSIVE JoinPath(_)
\* The keys of a path joined with '_'.
JoinPath(path) ==
    IF Len(path) = 1 THEN path[1]
    ELSE path[1] \o "_" \o JoinPath(Tail(path))

\* How a leaf is to appear in the output.
Rendered(v) == IF v.t = "list" THEN StrV(JoinStrings(v.l)) ELSE v

\* No entry of the mapping is a mapping or a list.
IsFlat(items) == \A i \in DOMAIN items : items[i].v.t \in {"int", "str"}

Flattened == flat.step \in {"flattened", "again"}

\* C18: flattening.  For a mapping the result is single-level, its keys
\* are the '_'-joined key paths of the input's leaves, and each entry
\* carries a leaf of that path, a list rendered as ', '-joined string, a
\* scalar unchanged; a non-mapping v gives {'value': v}.
C18_Flatten ==
    Flattened =>
        IF flat.x.t = "dict"
        THEN /\ IsFlat(flat.out)
             /\ \A i, j \in DOMAIN flat.out :
                    flat.out[i].k = flat.out[j].k => i = j
             /\ KeysOf(flat.out) =
                    {JoinPath(lf.path) : lf \in Leaves(flat.x.d, <<>>)}
             /\ \A i \in DOMAIN flat.out :
                    \E lf \in Leaves(flat.x.d, <<>>) :
                        /\ JoinPath(lf.path) = flat.out[i].k
                        /\ Rendered(lf.v) = flat.out[i].v
             /\ JoinStrings(<<3, 4>>) = "3, 4"
        ELSE flat.out = <<[k |-> "value", v |-> flat.x]>>

RECURSIVE NoEmptyKey(_)
\* No key of the mapping, nested ones included, is the empty string.
NoEmptyKey(items) ==
    \A i \in DOMAIN items :
        /\ items[i].k # ""
        /\ items[i].v.t = "dict" => NoEmptyKey(items[i].v.d)

\* C35: no leaf is lost.  The output of flattening a mapping (its keys not
\* empty) has one entry per scalar or list leaf of the input: leaves of
\* distinct key paths get distinct keys.
C35_NoLeafLost ==
    (Flattened /\ flat.x.t = "dict" /\ NoEmptyKey(flat.x.d)) =>
        /\ \A i, j \in DOMAIN flat.out :
               flat.out[i].k = flat.out[j].k => i = j
        /\ Len(flat.out) = Cardinality(Leaves(flat.x.d, <<>>))

\* C19: idempotence.  Flattening the result of a flattening changes
\* nothing, and flattening a flat mapping returns it unchanged.
C19_Idempotent ==
    /\ (flat.step = "again" /\ flat.x.t = "dict") =>
          AsMap(flat.again) = AsMap(flat.out)
    /\ (Flattened /\ flat.x.t = "dict" /\ IsFlat(flat.x.d)) =>
          AsMap(flat.out) = AsMap(flat.x.d)

\* A nested mapping with a list leaf has been flattened twice: the first
\* call changed it, the second did not.
C19_Witness ==
    /\ flat.step = "again"
    /\ flat.x.t = "dict"
    /\ ~IsFlat(flat.x.d)
    /\ \E lf \in Leaves(flat.x.d, <<>>) : Len(lf.path) > 1 /\ lf.v.t = "list"
    /\ flat.again = flat.out
    /\ flat.out # <<>>

\* ------------------------------------------- _clean_json_response
\* A response text is a sequence of characters of four kinds: the braces,
\* "k" for a key with its colon, and "x" for any character that is no JSON.
\* A JSON object is "{}" or "{" "k" object "}".
Chars == {"{", "}", "k", "x"}

\* The decoder also reads the key "UID" with its colon, written "u", and the
\* number 0 as a value, which the contents of a response are built from.
KeyChars == {"k", "u"}
KeyName(c) == IF c = "u" THEN "UID" ELSE "k"

\* Longest response text.
MaxTextLen == 8
\* The nesting depth at which the JSON decoder raises RecursionError (the
\* interpreter's recursion limit, 1000 by default), scaled to the texts.
RecursionLimit == 2

Texts == UNION {[1..n -> Chars] : n \in 0..MaxTextLen}

Min(S) == CHOOSE m \in S : \A n \in S : m <= n
MaxOf(S) == CHOOSE m \in S : \A n \in S : m >= n

RECURSIVE TextString(_)
\* The text as a string.
TextString(text) ==
    IF text = <<>> THEN "" ELSE Head(text) \o TextString(Tail(text))

\* Mutant: the pattern matched lazily, up to the first closing brace.
SearchEnd_Lazy(text, i) == Min({j \in (i + 1)..Len(text) : text[j] = "}"})

\* Where the match of '\{.*\}' that starts at i ends: '.*' is greedy and
\* DOTALL, so at the last closing brace after i.
SearchEnd(text, i) == MaxOf({j \in (i + 1)..Len(text) : text[j] = "}"})

\* re.search(r'\{.*\}', text, re.DOTALL): the leftmost position where the
\* pattern matches, and the match from there; <<>> for None.
Search(text) ==
    LET starts == {i \in DOMAIN text :
                      /\ text[i] = "{"
                      /\ \E j \in (i + 1)..Len(text) : text[j] = "}"}
    IN IF starts = {} THEN <<>>
       ELSE SubSeq(text, Min(starts), SearchEnd(text, Min(starts)))

RECURSIVE ScanObject(_, _, _)
\* The decoder at position i of s, which holds "{", with depth objects
\* open: [st |-> "ok", next |-> position after the object, v |-> the dict],
\* st "decode" for a JSONDecodeError, st "recursion" for a RecursionError
\* (raised on entering an object beyond the limit).
ScanObject(s, i, depth) ==
    LET fail(st) == [st |-> st, next |-> i, v |-> DictV(<<>>)]
        member(v, next) ==
            IF next > Len(s) \/ s[next] # "}" THEN fail("decode")
            ELSE [st |-> "ok", next |-> next + 1,
                  v |-> DictV(<<[k |-> KeyName(s[i + 1]), v |-> v]>>)]
    IN IF depth + 1 > RecursionLimit THEN fail("recursion")
       ELSE IF i + 1 > Len(s) THEN fail("decode")
       ELSE IF s[i + 1] = "}"
       THEN [st |-> "ok", next |-> i + 2, v |-> DictV(<<>>)]
       ELSE IF s[i + 1] \notin KeyChars \/ i + 2 > Len(s)
       THEN fail("decode")
       ELSE IF s[i + 2] = "0" THEN member(IntV(0), i + 3)
       ELSE IF s[i + 2] # "{" THEN fail("decode")
       ELSE LET inner == ScanObject(s, i + 2, depth + 1)
            IN IF inner.st # "ok" THEN fail(inner.st)
               ELSE member(inner.v, inner.next)

\* json.loads(s) for a text that starts with "{": the object when the text
\* is one JSON object and nothing else.
JsonLoads(s) ==
    LET r == ScanObject(s, 1, 0)
    IN IF r.st = "ok" /\ r.next # Len(s) + 1
       THEN [st |-> "decode", next |-> r.next, v |-> DictV(<<>>)]
       ELSE r

\* The tagged failure {"error": tag, "raw_content": text}.
TaggedFailure(tag, text) ==
    DictV(<<[k |-> "error", v |-> StrV(tag)],
            [k |-> "raw_content", v |-> StrV(TextString(text))]>>)

\* _clean_json_response(text_content): what it returns (ret), the exception
\* it raises if any (raised), and the warnings it puts on the queue.
CleanJsonResponse(text) ==
    LET json_str == Search(text)
        nothing == DictV(<<>>)
    IN IF json_str = <<>>
       THEN [raised |-> "",
             ret |-> TaggedFailure("No JSON found in response", text),
             queue |-> <<"no_json_found", "raw_text">>]
       ELSE LET r == JsonLoads(json_str)
            IN CASE r.st = "ok" ->
                      [raised |-> "", ret |-> r.v, queue |-> <<>>]
                 [] r.st = "decode" ->
                      [raised |-> "",
                       ret |-> TaggedFailure("JSON Decode Error", text),
                       queue |-> <<"cannot_decode", "raw_text">>]
                 [] r.st = "recursion" ->
                      [raised |-> "RecursionError", ret |-> nothing,
                       queue |-> <<>>]

\* The calls of the other functions stay unmade.
CleanOnly ==
    /\ flat = NoCall
    /\ client = NoCall
    /\ task = NoCall
    /\ chan = NoCall
    /\ ui = NoCall

InitClean ==
    /\ PipelineIdle
    /\ CleanOnly
    /\ clean \in {[step |-> "input", text |-> text, raised |-> "",
                   ret |-> DictV(<<>>), queue |-> <<>>] : text \in Texts}

\* _clean_json_response(text) is called.
CleanCall ==
    /\ clean.step = "input"
    /\ LET r == CleanJsonResponse(clean.text)
       IN clean' = [clean EXCEPT !.step = "returned", !.raised = r.raised,
                                 !.ret = r.ret, !.queue = r.queue]
    /\ UNCHANGED <<pipelineVars, flat, client, task, chan, ui>>

NextClean == CleanCall

SpecClean == InitClean /\ [][NextClean]_vars

\* The positions of the first "{" and of the last "}" of the text (0: none).
FirstOpen(text) ==
    IF \E i \in DOMAIN text : text[i] = "{"
    THEN Min({i \in DOMAIN text : text[i] = "{"}) ELSE 0
LastClose(text) ==
    IF \E i \in DOMAIN text : text[i] = "}"
    THEN MaxOf({i \in DOMAIN text : text[i] = "}"}) ELSE 0

\* The text has a span from its first "{" to its last "}".
HasSpan(text) == FirstOpen(text) > 0 /\ FirstOpen(text) < LastClose(text)
Span(text) == SubSeq(text, FirstOpen(text), LastClose(text))

\* C17: response cleaning.  The call never raises; it returns the object
\* parsed from the span from the first "{" to the last "}" when that span
\* parses, the tagged decode error with the raw text when it does not, and
\* the tagged no-JSON-found error with the text when there is no span.
C17_ResponseCleaning ==
    clean.step = "returned" =>
        /\ clean.raised = ""
        /\ IF ~HasSpan(clean.text)
           THEN clean.ret =
                    TaggedFailure("No JSON found in response", clean.text)
           ELSE IF JsonLoads(Span(clean.text)).st = "ok"
           THEN clean.ret = JsonLoads(Span(clean.text)).v
           ELSE clean.ret = TaggedFailure("JSON Decode Error", clean.text)

\* The same for the texts whose objects stay within the decoder's depth.
C17_WithinDepth ==
    (clean.step = "returned" /\ clean.raised = "") =>
        IF ~HasSpan(clean.text)
        THEN clean.ret =
                 TaggedFailure("No JSON found in response", clean.text)
        ELSE IF JsonLoads(Span(clean.text)).st = "ok"
        THEN clean.ret = JsonLoads(Span(clean.text)).v
        ELSE clean.ret = TaggedFailure("JSON Decode Error", clean.text)

\* ------------------------------------------------------- the API clients
\* config.MAX_RETRIES.
MAX_RETRIES == 3

\* The provider variants of get_api_client.
Providers ==
    {"OpenAI", "Anthropic", "DeepSeek", "Moonshot", "Intern-AI (Internal)"}

\* What an attempt of requests.post gives: a 2xx response ("ok"), a 4xx or
\* 5xx response (HTTPError from raise_for_status), a transport failure, or
\* the per-request timeout (both RequestException).
NetOutcomes == {"ok", "http_error", "transport", "timeout"}

\* What each of the MAX_RETRIES attempts would give.
Scripts == [1..MAX_RETRIES -> NetOutcomes]

\* The prompt with or without the line "--- TEXT TO ANALYZE ---".
Prompts == {"with_marker", "no_marker"}

\* The texts a well-formed response body carries as its content: an empty
\* object, a nested object, no JSON, a broken object, an object nested to
\* depth three.
Contents ==
    {<<"{", "}">>,
     <<"x", "{", "k", "{", "}", "}", "x">>,
     <<"x", "x">>,
     <<"{", "x", "}">>,
     <<"{", "u", "0", "}">>,
     <<"{", "k", "{", "k", "{", "}", "}", "}">>}

\* The JSON body of a 2xx response: well formed with a content text; the
\* content path missing a key or with an empty choices list; a body that
\* cannot be indexed that way (a list, or null under a key); an empty body;
\* or a null content.
BodyShapes ==
    {"content", "missing_key", "empty_list", "not_indexable", "empty_body",
     "null_content"}
Bodies ==
    {[shape |-> "content", text |-> c] : c \in Contents} \cup
    {[shape |-> sh, text |-> <<>>] : sh \in BodyShapes \ {"content"}}

\* Mutant: the backoff sleep taken after the last attempt as well.
SleepsAfter_Always(attempt) == TRUE

\* Line 74: whether a failed attempt (counted from 0) is followed by a sleep.
SleepsAfter(attempt) == attempt < MAX_RETRIES - 1

\* Mutant: the backoff starting at one second.
SleepTime_FromOne(attempt) == 2 ^ attempt

\* Line 75: the seconds slept after a failed attempt (counted from 0).
SleepTime(attempt) == 2 ^ (attempt + 1)

Post == [e |-> "post", s |-> 0]
Sleep(s) == [e |-> "sleep", s |-> s]

RECURSIVE RetryLoop(_, _, _)
\* The loop of _make_request_with_retries from attempt (counted from 0) on,
\* events the posts and sleeps so far: [ok |-> whether a response is
\* returned (None otherwise), events |-> the posts and sleeps in order].
RetryLoop(script, attempt, events) ==
    IF attempt >= MAX_RETRIES THEN [ok |-> FALSE, events |-> events]
    ELSE IF script[attempt + 1] = "ok"
    THEN [ok |-> TRUE, events |-> Append(events, Post)]
    ELSE RetryLoop(script, attempt + 1,
            Append(events, Post) \o
            (IF SleepsAfter(attempt) THEN <<Sleep(SleepTime(attempt))>>
             ELSE <<>>))

\* _make_request_with_retries.
MakeRequestWithRetries(script) == RetryLoop(script, 0, <<>>)

\* The mapping {"error": tag}.
ErrorOnly(tag) == DictV(<<[k |-> "error", v |-> StrV(tag)]>>)

\* The body of analyze_text after the request: the content is taken out of
\* the body and cleaned; KeyError and IndexError give the format error, any
\* other exception leaves the method; a falsy body or None gives the
\* failure.
AfterRequest(got, body) ==
    LET returns(v) == [raised |-> "", ret |-> v]
        raises(x) == [raised |-> x, ret |-> DictV(<<>>)]
    IN IF ~got \/ body.shape = "empty_body"
       THEN returns(ErrorOnly("API Failure"))
       ELSE CASE body.shape = "content" ->
                   LET c == CleanJsonResponse(body.text)
                   IN [raised |-> c.raised, ret |-> c.ret]
              [] body.shape \in {"missing_key", "empty_list"} ->
                   returns(ErrorOnly("API Format Error"))
              [] body.shape \in {"not_indexable", "null_content"} ->
                   raises("TypeError")

\* analyze_text of the provider's client: what it returns or raises, and
\* the posts and sleeps of its request.  AnthropicClient first splits the
\* prompt at the marker line into two parts (line 130).
AnalyzeText(provider, prompt, script, body) ==
    IF provider = "Anthropic" /\ prompt = "no_marker"
    THEN [raised |-> "ValueError", ret |-> DictV(<<>>), events |-> <<>>]
    ELSE LET r == MakeRequestWithRetries(script)
             a == AfterRequest(r.ok, body)
         IN [raised |-> a.raised, ret |-> a.ret, events |-> r.events]

\* The calls of the other functions stay unmade.
ClientOnly ==
    /\ flat = NoCall
    /\ clean = NoCall
    /\ task = NoCall
    /\ chan = NoCall
    /\ ui = NoCall

InitClient ==
    /\ PipelineIdle
    /\ ClientOnly
    /\ client \in {[step |-> "input", provider |-> p, prompt |-> q,
                    script |-> sc, body |-> b, raised |-> "",
                    ret |-> DictV(<<>>), events |-> <<>>] :
                      p \in Providers, q \in Prompts, sc \in Scripts,
                      b \in Bodies}

\* analyze_text(prompt) is called on the provider's client.
ClientCall ==
    /\ client.step = "input"
    /\ LET r == AnalyzeText(client.provider, client.prompt, client.script,
                            client.body)
       IN client' = [client EXCEPT !.step = "returned",
                                   !.raised = r.raised, !.ret = r.ret,
                                   !.events = r.events]
    /\ UNCHANGED <<pipelineVars, flat, clean, task, chan, ui>>

NextClient == ClientCall

SpecClient == InitClient /\ [][NextClient]_vars

\* The posts and the sleeps of a call, in order.
PostsOf(events) == SelectSeq(events, LAMBDA ev : ev.e = "post")
SleepsOf(events) == SelectSeq(events, LAMBDA ev : ev.e = "sleep")

RECURSIVE SumSleeps(_)
SumSleeps(events) ==
    IF events = <<>> THEN 0 ELSE Head(events).s + SumSleeps(Tail(events))

RECURSIVE SumPowers(_)
\* 2^1 + ... + 2^n.
SumPowers(n) == IF n <= 0 THEN 0 ELSE 2 ^ n + SumPowers(n - 1)

AllFail(script) == \A i \in DOMAIN script : script[i] # "ok"

\* The first attempt (counted from 1) that gets a response.
FirstOK(script) == Min({i \in DOMAIN script : script[i] = "ok"})

\* C33: success at attempt k.  When attempt k is the first to get a
\* response, exactly k attempts are made, the waits before attempts 2..k
\* are 2, 4, ..., 2^(k-1) seconds, each double the one before, and the
\* response is returned right after attempt k, no attempt or wait
\* following.
C33_SuccessAtK ==
    (/\ client.step = "returned"
     /\ ~AllFail(client.script)
     /\ client.events # <<>>) =>
        LET k == FirstOK(client.script)
            sleeps == SleepsOf(client.events)
        IN /\ k <= MAX_RETRIES
           /\ Len(PostsOf(client.events)) = k
           /\ sleeps = [i \in 1..(k - 1) |-> Sleep(2 ^ i)]
           /\ \A i \in 2..Len(sleeps) : sleeps[i].s = 2 * sleeps[i - 1].s
           /\ Len(client.events) = 2 * k - 1
           /\ \A i \in DOMAIN client.events :
                 client.events[i].e = (IF i % 2 = 1 THEN "post" ELSE "sleep")
           /\ MakeRequestWithRetries(client.script).ok

\* A call whose last attempt was the first to get a response has returned.
C33_Witness ==
    /\ client.step = "returned"
    /\ client.script[MAX_RETRIES] = "ok"
    /\ FirstOK(client.script) = MAX_RETRIES
    /\ Len(client.events) = 2 * MAX_RETRIES - 1
    /\ client.body.shape = "content"

\* C15: for every provider, prompt and sequence of network outcomes
\* analyze_text returns a non-empty mapping and never raises, and when all
\* attempts failed the mapping is the tagged failure.
C15_ClientTotal ==
    client.step = "returned" =>
        /\ client.raised = ""
        /\ client.ret.t = "dict"
        /\ AllFail(client.script) => client.ret = ErrorOnly("API Failure")

\* C16: retry and backoff.  When every attempt of the network call fails,
\* by HTTP error, transport failure or timeout in any mix, exactly
\* MAX_RETRIES attempts are made, the sleeps are 2^1, ..., 2^(MAX_RETRIES-1)
\* seconds, one after each attempt but the last, and the failure is
\* returned.
C16_RetryBackoff ==
    (/\ client.step = "returned"
     /\ AllFail(client.script)
     /\ client.events # <<>>) =>
        /\ Len(PostsOf(client.events)) = MAX_RETRIES
        /\ SleepsOf(client.events) =
              [i \in 1..(MAX_RETRIES - 1) |-> Sleep(2 ^ i)]
        /\ SumSleeps(client.events) = SumPowers(MAX_RETRIES - 1)
        /\ \A i \in DOMAIN client.events :
              client.events[i].e = "sleep" <=>
                 (i % 2 = 0 /\ i < Len(client.events))
        /\ client.events[Len(client.events)].e = "post"
        /\ ~MakeRequestWithRetries(client.script).ok
        /\ client.ret = ErrorOnly("API Failure")

\* A call whose attempts failed in all three ways has returned.
C16_Witness ==
    /\ client.step = "returned"
    /\ {client.script[i] : i \in DOMAIN client.script} =
          {"http_error", "transport", "timeout"}
    /\ client.events # <<>>
    /\ SumSleeps(client.events) = SumPowers(MAX_RETRIES - 1)
    /\ client.ret = ErrorOnly("API Failure")

\* ------------------------------------------- _analyze_single_document
\* The title of a record as the row gives it: NaN for an absent or empty
\* cell, the empty string, a whitespace-only string, a string with text,
\* or a number (the title column of a file whose titles are all numeric).
TitleKinds == {"nan", "empty", "whitespace", "text", "number"}

\* The titles the claim about missing titles is about.
MissingTitles == {"nan", "empty", "whitespace"}

\* The prompt template by its replacement fields:
\*   "placeholder"  {content_to_analyze} and no other field
\*   "none"         no replacement field at all
\*   "other_field"  a field of another name, as the braces of a JSON example
\*   "positional"   a field without name, {} or {0}
\*   "unbalanced"   a single brace
\* and by whether it holds the line "--- TEXT TO ANALYZE ---".
TemplateKinds ==
    {"placeholder", "none", "other_field", "positional", "unbalanced"}
Templates == [kind : TemplateKinds, marker : BOOLEAN]

\* The network outcomes of the task's call: every attempt answered, or
\* every attempt timing out.
TaskScripts == {[i \in 1..MAX_RETRIES |-> o] : o \in {"ok", "timeout"}}

\* Mutant: the title tested without strip().
TitleCheck_NoStrip(title) ==
    CASE title \in {"nan", "empty"} -> "missing"
      [] title = "number" -> "AttributeError"
      [] OTHER -> "present"

\* Line 166: pd.isna(title) or not title.strip(); a number is not NaN and
\* has no strip().
TitleCheck(title) ==
    CASE title = "nan" -> "missing"
      [] title = "number" -> "AttributeError"
      [] title \in {"empty", "whitespace"} -> "missing"
      [] OTHER -> "present"

\* Lines 172-176: prompt_template.format(content_to_analyze=...): the
\* prompt, the KeyError that is caught, or the exception that is not.
FormatPrompt(template) ==
    CASE template.kind \in {"placeholder", "none"} -> "prompt"
      [] template.kind = "other_field" -> "KeyError"
      [] template.kind = "positional" -> "IndexError"
      [] template.kind = "unbalanced" -> "ValueError"

\* _analyze_single_document: what the task returns or raises, the number
\* of calls of the client it made and the posts and sleeps of that call.
AnalyzeSingleDocument(title, template, provider, script, body) ==
    LET quiet(raised, ret) ==
            [raised |-> raised, ret |-> ret, calls |-> 0, events |-> <<>>]
        checked == TitleCheck(title)
        formatted == FormatPrompt(template)
    IN IF checked = "missing"
       THEN quiet("", ErrorOnly("Missing Title"))
       ELSE IF checked # "present" THEN quiet(checked, DictV(<<>>))
       ELSE IF formatted = "KeyError"
       THEN quiet("", ErrorOnly("Invalid Prompt Template"))
       ELSE IF formatted # "prompt" THEN quiet(formatted, DictV(<<>>))
       ELSE LET r == AnalyzeText(provider,
                        IF template.marker THEN "with_marker"
                        ELSE "no_marker", script, body)
            IN [raised |-> r.raised, ret |-> r.ret, calls |-> 1,
                events |-> r.events]

\* df.loc[index].to_dict(): the columns of the source record.
OriginalData(title) ==
    <<[k |-> "Article Title", v |-> StrV(title)],
      [k |-> "Abstract", v |-> StrV("abstract")],
      [k |-> "UID", v |-> IntV(1)]>>

\* Lines 127-145: the OutputRow built from the record and the future.
CombinedRow(original, raised, ret) ==
    IF raised # "" THEN SetItem(original, "error", StrV(raised))
    ELSE IF ret.d # <<>>
    THEN Update(original, flatten_json_result(ret, ""))
    ELSE SetItem(original, "error", StrV("API Failure after retries"))

\* The calls of the other functions stay unmade.
TaskOnly ==
    /\ flat = NoCall
    /\ clean = NoCall
    /\ client = NoCall
    /\ chan = NoCall
    /\ ui = NoCall

InitTask ==
    /\ PipelineIdle
    /\ TaskOnly
    /\ task \in {[step |-> "input", title |-> ti, template |-> te,
                  provider |-> p, script |-> sc, body |-> b, raised |-> "",
                  ret |-> DictV(<<>>), calls |-> 0, events |-> <<>>,
                  row |-> <<>>] :
                    ti \in TitleKinds, te \in Templates, p \in Providers,
                    sc \in TaskScripts, b \in Bodies}

\* A worker runs _analyze_single_document for the record.
TaskCall ==
    /\ task.step = "input"
    /\ LET r == AnalyzeSingleDocument(task.title, task.template,
                    task.provider, task.script, task.body)
       IN task' = [task EXCEPT !.step = "done", !.raised = r.raised,
                               !.ret = r.ret, !.calls = r.calls,
                               !.events = r.events]
    /\ UNCHANGED <<pipelineVars, flat, clean, client, chan, ui>>

\* The collection loop reads the future and builds the OutputRow.
TaskMerge ==
    /\ task.step = "done"
    /\ task' = [task EXCEPT !.step = "merged",
                  !.row = CombinedRow(OriginalData(task.title), task.raised,
                                      task.ret)]
    /\ UNCHANGED <<pipelineVars, flat, clean, client, chan, ui>>

NextTask ==
    \/ TaskCall
    \/ TaskMerge

SpecTask == InitTask /\ [][NextTask]_vars

\* The value of a column of a row ("absent" when the row has no such key).
ColumnOf(row, key) ==
    IF key \in KeysOf(row) THEN AsMap(row)[key] ELSE StrV("absent")

TaskDone == task.step \in {"done", "merged"}

\* C12: missing-title short-circuit.  For a record whose title is absent,
\* empty or whitespace-only the task makes no call of the client and no
\* request, returns {"error": "Missing Title"} without raising, and the
\* record's OutputRow has error = "Missing Title".
C12_MissingTitle ==
    (task.title \in MissingTitles) =>
        /\ TaskDone =>
              /\ task.calls = 0
              /\ task.events = <<>>
              /\ task.raised = ""
              /\ task.ret = ErrorOnly("Missing Title")
        /\ task.step = "merged" =>
              /\ ColumnOf(task.row, "error") = StrV("Missing Title")
              /\ ColumnOf(task.row, "UID") = IntV(1)

\* The OutputRow of a record with a whitespace-only title has been built,
\* the template being one that would have raised.
C12_Witness ==
    /\ task.step = "merged"
    /\ task.title = "whitespace"
    /\ task.template.kind = "positional"
    /\ task.provider = "Anthropic"
    /\ ColumnOf(task.row, "error") = StrV("Missing Title")

\* C13: invalid prompt template.  For every template without the
\* {content_to_analyze} placeholder the task of a titled record returns
\* {"error": "Invalid Prompt Template"} and makes no call of the client.
C13_InvalidTemplate ==
    (TaskDone /\ task.title = "text" /\ task.template.kind # "placeholder")
        => /\ task.raised = ""
           /\ task.ret = ErrorOnly("Invalid Prompt Template")
           /\ task.calls = 0

\* C14: the task never raises: for every title, template and client
\* behaviour it returns a mapping, what the client returned or a tagged
\* failure.
C14_TaskNeverRaises ==
    TaskDone =>
        /\ task.raised = ""
        /\ task.ret.t = "dict"
        /\ task.calls = 0 =>
              task.ret \in {ErrorOnly("Missing Title"),
                            ErrorOnly("Invalid Prompt Template")}

\* C28: merging preserves the source record.  Every column of the source
\* record, the UID among them, has in the OutputRow the value it has in the
\* source record, whatever the analysis result holds.
C28_SourcePreserved ==
    task.step = "merged" =>
        \A i \in DOMAIN OriginalData(task.title) :
            ColumnOf(task.row, OriginalData(task.title)[i].k) =
                OriginalData(task.title)[i].v

\* C30: the tag "API Failure after retries".  An OutputRow carries it only
\* when the task called the client and every attempt of the request
\* failed; a task whose request got a response never carries it.
C30_FailureTag ==
    (/\ task.step = "merged"
     /\ ColumnOf(task.row, "error") = StrV("API Failure after retries")) =>
        /\ task.calls = 1
        /\ AllFail(task.script)

\* ----------------------------------------------- the progress/log channel
\* The queue the App creates and hands to the DataProcessor (and through it
\* to the client): every producer puts on it, the GUI's poll takes from it.
\* Messages are named by their producer and their number in the producer's
\* own order.

\* Number of messages each producer puts; the last one of the run's thread
\* is its terminal report.
MaxPuts == 2

\* The run's thread, a worker thread, and the GUI thread (stop() puts its
\* own line on the queue).
Producers == {"orchestrator", "worker", "gui"}

\* Queue(): maxsize 0, no bound on the number of messages.
QueueMaxSize == 0

\* Mutant: a queue of one slot.
Full_OneSlot(q) == Len(q) >= 1

\* queue.Queue: a put blocks while maxsize > 0 and the queue holds maxsize
\* messages.
Full(q) == QueueMaxSize > 0 /\ Len(q) >= QueueMaxSize

Message(p, n) == [from |-> p, n |-> n]

InitChannel ==
    /\ PipelineIdle
    /\ flat = NoCall
    /\ clean = NoCall
    /\ client = NoCall
    /\ task = NoCall
    /\ ui = NoCall
    /\ chan = [step |-> "open", queue |-> <<>>,
               sent |-> [p \in Producers |-> 0], got |-> <<>>]

\* self.queue.put(message) in a producer: it goes through when the queue is
\* not full, at the tail of the queue.
Put(p) ==
    /\ chan.sent[p] < MaxPuts
    /\ ~Full(chan.queue)
    /\ chan' = [chan EXCEPT
                  !.queue = Append(@, Message(p, chan.sent[p] + 1)),
                  !.sent[p] = @ + 1]
    /\ UNCHANGED <<pipelineVars, flat, clean, client, task, ui>>

\* One pass of the loop of App._process_queue: while the queue is not empty
\* get_nowait takes the message at its head, which is then handled.
GetNowait ==
    /\ chan.queue # <<>>
    /\ chan' = [chan EXCEPT !.queue = Tail(@),
                            !.got = Append(@, Head(chan.queue))]
    /\ UNCHANGED <<pipelineVars, flat, clean, client, task, ui>>

NextChannel ==
    \/ \E p \in Producers : Put(p)
    \/ GetNowait

SpecChannel == InitChannel /\ [][NextChannel]_vars

RECURSIVE From(_, _)
\* The messages of producer p in sequence s, order kept.
From(s, p) ==
    IF s = <<>> THEN <<>>
    ELSE IF Head(s).from = p THEN <<Head(s)>> \o From(Tail(s), p)
         ELSE From(Tail(s), p)

\* C24: the channel.  A producer with a message to put can always put it,
\* whatever the queue holds and whether or not the consumer has taken
\* anything; and the messages of each producer, received and still queued,
\* are exactly those it has put, each once, in the order it put them, the
\* received ones before the queued ones.
C24_Channel ==
    /\ \A p \in Producers : chan.sent[p] < MaxPuts => ENABLED Put(p)
    /\ \A p \in Producers :
          From(chan.got \o chan.queue, p) =
              [i \in 1..chan.sent[p] |-> Message(p, i)]
    /\ chan.queue = <<>> =>
          Len(chan.got) = chan.sent["orchestrator"] + chan.sent["worker"]
                              + chan.sent["gui"]

\* Every producer has put all of its messages, the terminal report of the
\* run's thread among them, and the consumer has taken none.
C24_Witness ==
    /\ chan.got = <<>>
    /\ \A p \in Producers : chan.sent[p] = MaxPuts
    /\ Len(chan.queue) = 3 * MaxPuts

\* ------------------------------------------------------- the App's controls
\* The App enables the stop button and disables the start button when it
\* launches a run, and its poll of the queue sets them back.  A run is seen
\* here through the messages it puts on the queue.

\* Number of runs the user starts, and of log lines a run's thread and its
\* workers put before the run leaves _execute_analysis.
MaxThreads == 2
MaxLines == 2
\* Number of lines of stop() that wait in the queue at one time.
MaxStopLines == 1

Threads == 1..MaxThreads

\* The messages by what the poll looks at:
\*   "log"                a line with none of the keywords
\*                        ("正在分析 UID ...", "保存成功。")
\*   "record_error"       a line about one record or one attempt
\*                        ("API HTTP错误 ...", "错误: 处理 UID ...")
\*   "stop_sent"          the line stop() puts ("任务中止信号已发送")
\*   "analysis_complete"  line 159 ("分析完成！...")
\*   "terminal"           the report of the finally clause
RunLines == {"log", "record_error"}

\* Line 453: the line holds one of "完成", "错误", "中止", "完毕".
HasKeyword(kind) == kind # "log"

InitUI ==
    /\ PipelineIdle
    /\ flat = NoCall
    /\ clean = NoCall
    /\ client = NoCall
    /\ task = NoCall
    /\ chan = NoCall
    /\ ui = [step |-> "open", is_running |-> FALSE,
             thread |-> [t \in Threads |-> "none"],
             lines |-> [t \in Threads |-> 0],
             queue |-> <<>>, resets |-> {}]

\* The threads whose run_analysis has not returned.
Alive == {t \in Threads : ui.thread[t] \in {"running", "finally"}}

\* _start_analysis_thread, the command of the start button, which can be
\* clicked while the button is enabled: the controls are set to running
\* and a thread is started on the DataProcessor's run_analysis.
StartClick(t) ==
    /\ ~ui.is_running
    /\ ui.thread[t] = "none"
    /\ \A s \in Threads : s < t => ui.thread[s] # "none"
    /\ ui' = [ui EXCEPT !.is_running = TRUE, !.thread[t] = "running"]
    /\ UNCHANGED <<pipelineVars, flat, clean, client, task, chan>>

\* DataProcessor.stop, the command of the stop button, which can be clicked
\* while the button is enabled: its line is put on the queue.
StopClick ==
    /\ ui.is_running
    /\ Len(SelectSeq(ui.queue, LAMBDA m : m = "stop_sent")) < MaxStopLines
    /\ ui' = [ui EXCEPT !.queue = Append(@, "stop_sent")]
    /\ UNCHANGED <<pipelineVars, flat, clean, client, task, chan>>

\* The run's thread or one of its workers puts a line on the queue.
RunPut(t, kind) ==
    /\ ui.thread[t] = "running"
    /\ ui.lines[t] < MaxLines
    /\ ui' = [ui EXCEPT !.queue = Append(@, kind), !.lines[t] = @ + 1]
    /\ UNCHANGED <<pipelineVars, flat, clean, client, task, chan>>

\* _execute_analysis returns: after the final save with the completion
\* line of line 159, or early (lines 63, 70, 96) without it.
RunLeaves(t, early) ==
    /\ ui.thread[t] = "running"
    /\ ui' = [ui EXCEPT !.thread[t] = "finally",
                        !.queue = IF early THEN @
                                  ELSE Append(@, "analysis_complete")]
    /\ UNCHANGED <<pipelineVars, flat, clean, client, task, chan>>

\* The finally clause of run_analysis puts the terminal report and the
\* thread ends.
RunReport(t) ==
    /\ ui.thread[t] = "finally"
    /\ ui' = [ui EXCEPT !.thread[t] = "ended",
                        !.queue = Append(@, "terminal")]
    /\ UNCHANGED <<pipelineVars, flat, clean, client, task, chan>>

\* One pass of the loop of _process_queue: the line at the head of the
\* queue is taken and logged, and when it holds a keyword the controls are
\* set to idle.  resets keeps the kinds of line that turned running
\* controls idle.
ProcessQueue ==
    /\ ui.queue # <<>>
    /\ LET message == Head(ui.queue)
       IN ui' = [ui EXCEPT
                   !.queue = Tail(@),
                   !.is_running = IF HasKeyword(message) THEN FALSE ELSE @,
                   !.resets = IF HasKeyword(message) /\ ui.is_running
                              THEN @ \cup {message} ELSE @]
    /\ UNCHANGED <<pipelineVars, flat, clean, client, task, chan>>

NextUI ==
    \/ \E t \in Threads : StartClick(t)
    \/ StopClick
    \/ \E t \in Threads, kind \in RunLines : RunPut(t, kind)
    \/ \E t \in Threads, early \in BOOLEAN : RunLeaves(t, early)
    \/ \E t \in Threads : RunReport(t)
    \/ ProcessQueue

SpecUI == InitUI /\ [][NextUI]_vars

\* C34: the controls.  Only the consumption of a terminal report turns the
\* running controls idle; while a run's thread has not ended the controls
\* are in the running state (stop enabled, start disabled); and at most one
\* run is in progress on the DataProcessor.
C34_Controls ==
    /\ ui.resets \subseteq {"terminal"}
    /\ Alive # {} => ui.is_running
    /\ Cardinality(Alive) <= 1

====
